---- MODULE Spec2Model ----
(***************************************************************************)
(* Datagloss 3.1 (datagloss_app.py): a Streamlit session that asks a       *)
(* remote model to explain a SQL query, lets the user edit the explanation *)
(* and append it to sql_explanations.csv, and ranks the saved rows by      *)
(* similarity to a free-text query.                                        *)
(*                                                                         *)
(* A Python str is modelled as the sequence of its characters (one-char    *)
(* strings), so that lower(), startswith(), strip(), splitlines(), split() *)
(* and the CSV conversions are computed, not assumed.                      *)
(***************************************************************************)
EXTENDS Integers, Sequences, FiniteSets, TLC

VARIABLES
    apiKey,      \* HF_API_KEY of the current run (secret or text_input), a str
    sqlText,     \* content of the "Paste your SQL query" text area
    session,     \* st.session_state: [has |-> "explanation" in it, explanation |-> its value]
    file,        \* sql_explanations.csv: [exists, header, rows]
    http,        \* the requests.post made by the last run and its response, or NoRequest
    signal,      \* what the last run showed (warning / info / success / exception / table)
    similarity,  \* df['similarity'] of the last run's search, << >> if it computed none
    display,     \* rows shown by st.dataframe in the last run: <<[index, similarity]>>
    embedded,    \* TRUE iff the last run constructed the SentenceTransformer and encoded
    explained,   \* history: the query passed to explain_sql for session.explanation
    saving       \* history: [before |-> file before the last save, entry |-> its new_entry]

vars ==
    <<apiKey, sqlText, session, file, http, signal, similarity, display, embedded,
      explained, saving>>

----------------------------------------------------------------------------
(* Bounds of the model. *)

\* most rows a save may find already stored in the session model
MaxStored == 2
\* most rows of a store drawn for the ranking specification
MaxRanked == 6
\* similarity scores are drawn from 0..MaxScore
MaxScore == 1

----------------------------------------------------------------------------
(* Python str operations. *)

Min(S) == CHOOSE x \in S : \A y \in S : x <= y

UpperCase == <<"A", "B", "C", "D", "E", "F", "G", "H", "I", "J", "K", "L", "M",
               "N", "O", "P", "Q", "R", "S", "T", "U", "V", "W", "X", "Y", "Z">>
LowerCase == <<"a", "b", "c", "d", "e", "f", "g", "h", "i", "j", "k", "l", "m",
               "n", "o", "p", "q", "r", "s", "t", "u", "v", "w", "x", "y", "z">>
UpperLetters == {UpperCase[i] : i \in 1..26}
LowerOf == [c \in UpperLetters |-> LowerCase[CHOOSE i \in 1..26 : UpperCase[i] = c]]

LowerChar(c) == IF c \in UpperLetters THEN LowerOf[c] ELSE c

\* str.lower()
Lower(s) == [i \in 1..Len(s) |-> LowerChar(s[i])]

\* str.startswith(prefix)
StartsWith(s, prefix) ==
    /\ Len(s) >= Len(prefix)
    /\ SubSeq(s, 1, Len(prefix)) = prefix

Whitespace == {" ", "\n", "\t", "\r"}

\* str.strip()
Strip(s) ==
    IF \A i \in 1..Len(s) : s[i] \in Whitespace THEN << >>
    ELSE LET first == CHOOSE i \in 1..Len(s) :
                          s[i] \notin Whitespace /\ \A j \in 1..(i - 1) : s[j] \in Whitespace
             last == CHOOSE i \in 1..Len(s) :
                         s[i] \notin Whitespace /\ \A j \in (i + 1)..Len(s) : s[j] \in Whitespace
         IN  SubSeq(s, first, last)

\* str.splitlines(): split at "\n", "\r" and "\r\n"; no empty last line
RECURSIVE SplitLines(_)
SplitLines(s) ==
    IF s = << >> THEN << >>
    ELSE IF \A i \in 1..Len(s) : s[i] \notin {"\n", "\r"} THEN <<s>>
    ELSE LET i == CHOOSE k \in 1..Len(s) :
                      s[k] \in {"\n", "\r"} /\ \A j \in 1..(k - 1) : s[j] \notin {"\n", "\r"}
             n == IF s[i] = "\r" /\ i < Len(s) /\ s[i + 1] = "\n" THEN 2 ELSE 1
         IN  <<SubSeq(s, 1, i - 1)>> \o SplitLines(SubSeq(s, i + n, Len(s)))

\* line.split(":", 1)[1], for a line that holds a colon
AfterFirstColon(line) ==
    LET colon == CHOOSE i \in 1..Len(line) :
                     line[i] = ":" /\ \A j \in 1..(i - 1) : line[j] # ":"
    IN  SubSeq(line, colon + 1, Len(line))

\* pattern in s
Contains(s, pattern) ==
    \E i \in 1..(Len(s) - Len(pattern) + 1) : SubSeq(s, i, i + Len(pattern) - 1) = pattern

\* s.replace(pattern, ''), pattern not empty: every non-overlapping occurrence, left to right
RECURSIVE Remove(_, _)
Remove(s, pattern) ==
    IF ~Contains(s, pattern) THEN s
    ELSE LET i == CHOOSE j \in 1..(Len(s) - Len(pattern) + 1) :
                      /\ SubSeq(s, j, j + Len(pattern) - 1) = pattern
                      /\ \A k \in 1..(j - 1) : SubSeq(s, k, k + Len(pattern) - 1) # pattern
         IN  SubSeq(s, 1, i - 1) \o Remove(SubSeq(s, i + Len(pattern), Len(s)), pattern)

----------------------------------------------------------------------------
(* Texts of the program. *)

LabelTables ==
    <<"t", "a", "b", "l", "e", "s", " ", "u", "s", "e", "d", ":">>

LabelColumns ==
    <<"c", "o", "l", "u", "m", "n", "s", " ", "s", "e", "l", "e", "c", "t", "e", "d", ":">>

\* get_explanation_template()
Template ==
    <<"S", "u", "m", "m", "a", "r", "y", ":", "\n", "T", "a", "b", "l", "e", "s", " ", "U", "s",
      "e", "d", ":", "\n", "C", "o", "l", "u", "m", "n", "s", " ", "S", "e", "l", "e", "c", "t",
      "e", "d", ":", "\n", "C", "o", "l", "u", "m", "n", " ", "D", "e", "s", "c", "r", "i", "p",
      "t", "i", "o", "n", "s", ":", "\n", "F", "i", "l", "t", "e", "r", "s", "/", "C", "o", "n",
      "d", "i", "t", "i", "o", "n", "s", ":", "\n", "J", "o", "i", "n", "s", "/", "G", "r", "o",
      "u", "p", "i", "n", "g", "s", ":", "\n">>

\* the note appended to the template; "!" stands for the warning sign
ErrorPrefix ==
    <<"\n", "\n", "!", " ", "E", "r", "r", "o", "r", ":", " ">>

\* the f-string of explain_sql up to {query}
PromptHead ==
    <<"\n", " ", " ", " ", " ", "P", "l", "e", "a", "s", "e", " ", "e", "x", "p", "l", "a", "i",
      "n", " ", "t", "h", "e", " ", "f", "o", "l", "l", "o", "w", "i", "n", "g", " ", "S", "Q",
      "L", " ", "q", "u", "e", "r", "y", " ", "c", "l", "e", "a", "r", "l", "y", " ", "i", "n",
      " ", "t", "h", "e", " ", "f", "o", "r", "m", "a", "t", " ", "b", "e", "l", "o", "w", ".",
      " ", "D", "O", " ", "N", "O", "T", " ", "r", "e", "w", "r", "i", "t", "e", " ", "t", "h",
      "e", " ", "S", "Q", "L", ".", " ", "R", "e", "t", "u", "r", "n", " ", "o", "n", "l", "y",
      " ", "t", "h", "e", " ", "e", "x", "p", "l", "a", "n", "a", "t", "i", "o", "n", ".", "\n",
      "\n", " ", " ", " ", " ", "F", "o", "r", "m", "a", "t", ":", "\n", " ", " ", " ", " ",
      "S", "u", "m", "m", "a", "r", "y", ":", "\n", " ", " ", " ", " ", "T", "a", "b", "l", "e",
      "s", " ", "U", "s", "e", "d", ":", "\n", " ", " ", " ", " ", "C", "o", "l", "u", "m", "n",
      "s", " ", "S", "e", "l", "e", "c", "t", "e", "d", ":", "\n", " ", " ", " ", " ", "C", "o",
      "l", "u", "m", "n", " ", "D", "e", "s", "c", "r", "i", "p", "t", "i", "o", "n", "s", ":",
      "\n", " ", " ", " ", " ", "F", "i", "l", "t", "e", "r", "s", "/", "C", "o", "n", "d", "i",
      "t", "i", "o", "n", "s", ":", "\n", " ", " ", " ", " ", "J", "o", "i", "n", "s", "/", "G",
      "r", "o", "u", "p", "i", "n", "g", "s", ":", "\n", "\n", " ", " ", " ", " ", "S", "Q",
      "L", ":", "\n", " ", " ", " ", " ">>

\* and after {query}
PromptTail ==
    <<"\n", " ", " ", " ", " ">>

Prompt(query) == PromptHead \o query \o PromptTail

----------------------------------------------------------------------------
(* Inputs: the texts a user types and the texts the endpoint generates. *)

SqlSelect ==
    <<"S", "E", "L", "E", "C", "T", " ", "1">>

SqlEmpty == << >>

\* datetime.now().strftime("%Y-%m-%d %H:%M:%S")
Stamp ==
    <<"2", "0", "2", "6", "-", "1", "1", "-", "0", "4", " ", "0", "7", ":", "4", "1", ":", "0",
      "0">>

GenNormal ==
    <<"T", "a", "b", "l", "e", "s", " ", "U", "s", "e", "d", ":", " ", "t", "1", "\n", "C", "o",
      "l", "u", "m", "n", "s", " ", "S", "e", "l", "e", "c", "t", "e", "d", ":", " ", "c", "1">>

GenNoTables ==
    <<"T", "a", "b", "l", "e", "s", " ", "U", "s", "e", "d", ":", " ", "N", "/", "A">>

EditRepeated ==
    <<"T", "a", "b", "l", "e", "s", " ", "U", "s", "e", "d", ":", " ", "t", "1", "\n", "T", "A",
      "B", "L", "E", "S", " ", "U", "S", "E", "D", ":", " ", "t", "2">>

\* str(e) of a failed call
ErrText ==
    <<"b", "o", "o", "m">>

KeyEmpty == << >>
KeySet == <<"h", "f", "_", "k">>

ApiKeys == {KeyEmpty, KeySet}
SqlTexts == {SqlEmpty, SqlSelect}
Timestamps == {Stamp}

----------------------------------------------------------------------------
(* save_explanation: the derived fields and the new row. *)

\* the for loop over explanation.splitlines(): every matching line assigns
RECURSIVE ScanLines(_, _, _)
ScanLines(lines, tables_used, columns_selected) ==
    IF lines = << >>
    THEN [tables_used |-> tables_used, columns_selected |-> columns_selected]
    ELSE LET line == Head(lines)
             lowered == Lower(line)
         IN  IF StartsWith(lowered, LabelTables)
             THEN ScanLines(Tail(lines), Strip(AfterFirstColon(line)), columns_selected)
             ELSE IF StartsWith(lowered, LabelColumns)
             THEN ScanLines(Tail(lines), tables_used, Strip(AfterFirstColon(line)))
             ELSE ScanLines(Tail(lines), tables_used, columns_selected)

ExtractFields(explanation) == ScanLines(SplitLines(explanation), << >>, << >>)

ColumnNames == {"timestamp", "sql_query", "explanation", "tables_used", "columns_selected"}

\* the one row of new_entry, every field a Python str
NewEntry(timestamp, query, explanation) ==
    LET derived == ExtractFields(explanation)
    IN  [timestamp        |-> timestamp,
         sql_query        |-> query,
         explanation      |-> explanation,
         tables_used      |-> derived.tables_used,
         columns_selected |-> derived.columns_selected]

----------------------------------------------------------------------------
(* pandas: the values of a DataFrame cell, read_csv, concat, to_csv.        *)
(* A CSV field is the text between the delimiters, quoting removed.         *)

StrValue(s)   == [kind |-> "str", text |-> s]
NaN      == [kind |-> "nan", text |-> << >>]
IntValue(s)   == [kind |-> "int", text |-> s]
FloatValue(s) == [kind |-> "float", text |-> s]

\* fields read_csv takes for missing values: those of its default na_values that the
\* texts of this model can spell
NaValues ==
    { << >>, <<"N", "/", "A">>, <<"N", "A">>, <<"n", "/", "a">>, <<"N", "a", "N">>,
      <<"n", "a", "n">>, <<"N", "U", "L", "L">>, <<"n", "u", "l", "l">> }

Digits == {"0", "1", "2", "3", "4", "5", "6", "7", "8", "9"}

IsDigits(s) == Len(s) > 0 /\ \A i \in 1..Len(s) : s[i] \in Digits

Signed(s) == s # << >> /\ s[1] \in {"+", "-"}
Unsigned(s) == IF Signed(s) THEN Tail(s) ELSE s

\* a field the parser converts to int64: [+-]digits
IsIntText(s) == IsDigits(Unsigned(s))

DotOf(s) == CHOOSE i \in 1..Len(s) : s[i] = "."

\* a field the parser converts to float64: [+-]digits.digits, one side may be empty
IsFloatText(s) ==
    LET u == Unsigned(s)
        dots == {i \in 1..Len(u) : u[i] = "."}
    IN  /\ Cardinality(dots) = 1
        /\ Len(u) > 1
        /\ \A i \in 1..Len(u) : u[i] \in Digits \cup {"."}

\* digits without leading zeros, at least one digit
RECURSIVE DropLeadingZeros(_)
DropLeadingZeros(d) ==
    IF d = << >> THEN <<"0">>
    ELSE IF Len(d) > 1 /\ d[1] = "0" THEN DropLeadingZeros(Tail(d))
    ELSE d

\* digits without trailing zeros, at least one digit
RECURSIVE DropTrailingZeros(_)
DropTrailingZeros(d) ==
    IF d = << >> THEN <<"0">>
    ELSE IF Len(d) > 1 /\ d[Len(d)] = "0" THEN DropTrailingZeros(SubSeq(d, 1, Len(d) - 1))
    ELSE d

\* str() of the int64 parsed from an int field
IntRepr(s) ==
    LET d == DropLeadingZeros(Unsigned(s))
    IN  IF s[1] = "-" /\ d # <<"0">> THEN <<"-">> \o d ELSE d

\* repr() of the float64 parsed from an int or float field (short decimals)
FloatRepr(s) ==
    LET u == Unsigned(s)
        whole == IF IsIntText(s) THEN u ELSE SubSeq(u, 1, DotOf(u) - 1)
        frac == IF IsIntText(s) THEN << >> ELSE SubSeq(u, DotOf(u) + 1, Len(u))
        sign == IF s[1] = "-" THEN <<"-">> ELSE << >>
    IN  sign \o DropLeadingZeros(whole) \o <<".">> \o DropTrailingZeros(frac)

\* read_csv's type inference on one column of fields
ReadColumn(fields) ==
    LET present == {i \in 1..Len(fields) : fields[i] \notin NaValues}
        missing == (1..Len(fields)) \ present
    IN  IF missing = {} /\ \A i \in present : IsIntText(fields[i])
        THEN [i \in 1..Len(fields) |-> IntValue(IntRepr(fields[i]))]
        ELSE IF \A i \in present : IsIntText(fields[i]) \/ IsFloatText(fields[i])
        THEN [i \in 1..Len(fields) |->
                 IF i \in present THEN FloatValue(FloatRepr(fields[i])) ELSE NaN]
        ELSE [i \in 1..Len(fields) |-> IF i \in present THEN StrValue(fields[i]) ELSE NaN]

\* pd.read_csv(STORAGE_FILE) on a file with a header line: the frame, row by row
ReadCsv(rows) ==
    [i \in 1..Len(rows) |->
        [c \in ColumnNames |-> ReadColumn([j \in 1..Len(rows) |-> rows[j][c]])[i]]]

\* pd.DataFrame([{...}]): the fields of new_entry as str values
EntryFrame(entry) == <<[c \in ColumnNames |-> StrValue(entry[c])]>>

\* pd.concat([existing, new_entry], ignore_index=True)
Concat(existing, new_entry) == existing \o new_entry

\* the field to_csv writes for a value: NaN as the empty field, numbers by str()/repr()
WriteField(value) == value.text

\* DataFrame.to_csv(index=False), complete
ToCsv(frame) ==
    [i \in 1..Len(frame) |-> [c \in ColumnNames |-> WriteField(frame[i][c])]]

NoFile == [exists |-> FALSE, header |-> FALSE, rows |-> << >>]
Table(rows) == [exists |-> TRUE, header |-> TRUE, rows |-> rows]

\* the file after to_csv was cut short once `lines` lines (header first) were flushed
Truncated(rows, lines) ==
    [exists |-> TRUE, header |-> lines >= 1,
     rows |-> IF lines >= 1 THEN SubSeq(rows, 1, lines - 1) ELSE << >>]

\* `combined` of save_explanation
Combined(f, entry) ==
    IF f.exists THEN Concat(ReadCsv(f.rows), EntryFrame(entry)) ELSE EntryFrame(entry)

----------------------------------------------------------------------------
(* explain_sql: the call and the shapes of its JSON answer. *)

JList(items) == [type |-> "list", items |-> items, has |-> FALSE, generated_text |-> << >>]
JObject(has, text) == [type |-> "object", items |-> << >>, has |-> has, generated_text |-> text]
JScalar == [type |-> "scalar", items |-> << >>, has |-> FALSE, generated_text |-> << >>]

\* ok: post, raise_for_status and json() all returned
Failure == [ok |-> FALSE, body |-> JScalar]
Answer(body) == [ok |-> TRUE, body |-> body]

\* the answers drawn for a call that sent Prompt(query)
Responses(query) ==
    { Failure,
      Answer(JList(<<JObject(TRUE, GenNormal)>>)),
      Answer(JList(<<JObject(TRUE, Strip(Prompt(query)) \o <<"\n">> \o GenNoTables)>>)),
      Answer(JObject(TRUE, GenNoTables)),
      Answer(JObject(FALSE, << >>)),
      Answer(JList(<< >>)),
      Answer(JList(<<JObject(FALSE, << >>)>>)),
      Answer(JScalar) }

\* line 50 raises: IndexError, KeyError, or AttributeError on a value without get()
LookupRaises(result) ==
    \/ result.type = "list" /\ result.items = << >>
    \/ result.type = "list" /\ result.items # << >> /\ ~result.items[1].has
    \/ result.type = "scalar"

\* line 50: result[0]['generated_text'] or result.get('generated_text', '')
AiText(result) ==
    IF result.type = "list" THEN result.items[1].generated_text
    ELSE IF result.has THEN result.generated_text
    ELSE << >>

\* lines 51-52: drop the echoed prompt
StripEcho(prompt, ai_text) ==
    LET stripped == Strip(prompt)
    IN  IF Contains(ai_text, stripped) THEN Strip(Remove(ai_text, stripped)) ELSE ai_text

\* line 55: the except branch
Fallback == Template \o ErrorPrefix \o ErrText

explain_sql(query, response) ==
    IF ~response.ok \/ LookupRaises(response.body)
    THEN Fallback
    ELSE StripEcho(Prompt(query), AiText(response.body))

----------------------------------------------------------------------------
(* semantic_search: the ranking. *)

\* head(5)
TopK == 5

\* sort_values(by='similarity', ascending=False) with the default kind='quicksort', which
\* is not stable: every order of the indices of S with non-increasing similarity
RECURSIVE SortOrders(_, _)
SortOrders(S, sim) ==
    IF S = {} THEN {<< >>}
    ELSE UNION { {<<i>> \o rest : rest \in SortOrders(S \ {i}, sim)} :
                 i \in {j \in S : \A k \in S : sim[j] >= sim[k]} }

\* a cut one row late, as a slice through position TopK would make
HeadThroughK(order) == SubSeq(order, 1, Min({TopK + 1, Len(order)}))

\* .head(5)
HeadK(order) == SubSeq(order, 1, Min({TopK, Len(order)}))

\* df['embedding'] of a row whose two texts are str
EmbeddingText(row) == row.sql_query.text \o <<" ">> \o row.explanation.text

\* rows for which the concatenation or model.encode raises: a NaN or a number in either column
Unembeddable(frame) ==
    \E i \in 1..Len(frame) : frame[i].sql_query.kind # "str" \/ frame[i].explanation.kind # "str"

\* the Embedder is a function of the text: equal texts get equal similarity
Similarities(frame) ==
    { sim \in [1..Len(frame) -> 0..MaxScore] :
        \A i, j \in 1..Len(frame) :
            EmbeddingText(frame[i]) = EmbeddingText(frame[j]) => sim[i] = sim[j] }

----------------------------------------------------------------------------
(* The session. Every interaction reruns the script once. *)

NoRequest == [sent |-> FALSE, authorization |-> << >>, query |-> << >>, response |-> Failure]
NoSaving == [active |-> FALSE, before |-> NoFile, entry |-> NewEntry(<< >>, << >>, << >>)]
NoSession == [has |-> FALSE, explanation |-> << >>]

Init ==
    /\ apiKey \in ApiKeys
    /\ sqlText = SqlEmpty
    /\ session = NoSession
    /\ file = NoFile
    /\ http = NoRequest
    /\ signal = "idle"
    /\ similarity = << >>
    /\ display = << >>
    /\ embedded = FALSE
    /\ explained = << >>
    /\ saving = NoSaving

\* a rerun that shows nothing new below the widgets
Quiet ==
    /\ http' = NoRequest
    /\ similarity' = << >>
    /\ display' = << >>
    /\ embedded' = FALSE
    /\ saving' = NoSaving

\* the key field is edited (line 13)
SetApiKey(key) ==
    /\ key # apiKey
    /\ apiKey' = key
    /\ signal' = "idle"
    /\ Quiet
    /\ UNCHANGED <<sqlText, session, file, explained>>

\* the SQL text area is edited (line 117)
EditSql(text) ==
    /\ text # sqlText
    /\ sqlText' = text
    /\ signal' = "idle"
    /\ Quiet
    /\ UNCHANGED <<apiKey, session, file, explained>>

\* HEADERS (line 14): the bearer credential, no header without a key
Authorization(key) == key

\* a test for None, which the empty str of an untouched text_input never is
KeyIsNone(key) == FALSE

\* line 119: not HF_API_KEY
KeyMissing(key) == key = << >>

\* "Explain SQL" is pressed (lines 118-124)
PressExplain(response) ==
    /\ IF KeyMissing(apiKey)
       THEN /\ signal' = "key_warning"
            /\ http' = NoRequest
            /\ UNCHANGED <<session, explained>>
       ELSE IF Strip(sqlText) # << >>
       THEN /\ http' = [sent |-> TRUE, authorization |-> Authorization(apiKey),
                        query |-> sqlText, response |-> response]
            /\ session' = [has |-> TRUE, explanation |-> explain_sql(sqlText, response)]
            /\ explained' = sqlText
            /\ signal' = "explained"
       ELSE /\ signal' = "idle"
            /\ http' = NoRequest
            /\ UNCHANGED <<session, explained>>
    /\ similarity' = << >>
    /\ display' = << >>
    /\ embedded' = FALSE
    /\ saving' = NoSaving
    /\ UNCHANGED <<apiKey, sqlText, file>>

\* what the editable explanation area may hold when Save is pressed (line 127)
Editable == {session.explanation, EditRepeated}

\* "Save Explanation" is pressed and save_explanation returns or raises (lines 128-129, 58-84)
PressSave(now, editable_exp) ==
    /\ session.has
    /\ Len(file.rows) < MaxStored
    /\ LET entry == NewEntry(now, sqlText, editable_exp)
       IN  /\ IF file.exists /\ ~file.header
              THEN \* read_csv raises EmptyDataError on a file without columns
                   /\ signal' = "save_exception"
                   /\ file' = file
              ELSE /\ signal' = "saved"
                   /\ file' = Table(ToCsv(Combined(file, entry)))
           /\ saving' = [active |-> TRUE, before |-> file, entry |-> entry]
    /\ http' = NoRequest
    /\ similarity' = << >>
    /\ display' = << >>
    /\ embedded' = FALSE
    /\ UNCHANGED <<apiKey, sqlText, session, explained>>

\* the same press, but to_csv (line 83) is cut short by an I/O error or the death of the
\* process after it opened the file for writing and flushed some lines of the table
PressSaveCutShort(now, editable_exp) ==
    /\ session.has
    /\ Len(file.rows) < MaxStored
    /\ ~(file.exists /\ ~file.header)
    /\ LET entry == NewEntry(now, sqlText, editable_exp)
           written == ToCsv(Combined(file, entry))
       IN  /\ \E lines \in 0..Len(written) : file' = Truncated(written, lines)
           /\ saving' = [active |-> TRUE, before |-> file, entry |-> entry]
    /\ signal' = "save_exception"
    /\ http' = NoRequest
    /\ similarity' = << >>
    /\ display' = << >>
    /\ embedded' = FALSE
    /\ UNCHANGED <<apiKey, sqlText, session, explained>>

Ranked(order, sim) == [i \in 1..Len(order) |-> [index |-> order[i], similarity |-> sim[order[i]]]]

\* "Search" is pressed with a description typed (lines 135-136, 87-106)
PressSearch ==
    /\ IF ~file.exists
       THEN /\ signal' = "no_history"
            /\ similarity' = << >>
            /\ display' = << >>
            /\ embedded' = FALSE
       ELSE IF ~file.header
       THEN \* read_csv raises EmptyDataError
            /\ signal' = "search_exception"
            /\ similarity' = << >>
            /\ display' = << >>
            /\ embedded' = FALSE
       ELSE IF file.rows = << >>
       THEN /\ signal' = "no_data"
            /\ similarity' = << >>
            /\ display' = << >>
            /\ embedded' = FALSE
       ELSE IF Unembeddable(ReadCsv(file.rows))
       THEN \* TypeError, after the model was loaded and the query encoded
            /\ signal' = "search_exception"
            /\ similarity' = << >>
            /\ display' = << >>
            /\ embedded' = TRUE
       ELSE \E sim \in Similarities(ReadCsv(file.rows)) :
                \E order \in SortOrders(1..Len(file.rows), sim) :
                    /\ signal' = "top_matches"
                    /\ similarity' = sim
                    /\ display' = Ranked(HeadK(order), sim)
                    /\ embedded' = TRUE
    /\ http' = NoRequest
    /\ saving' = NoSaving
    /\ UNCHANGED <<apiKey, sqlText, session, file, explained>>

Next ==
    \/ \E key \in ApiKeys : SetApiKey(key)
    \/ \E text \in SqlTexts : EditSql(text)
    \/ \E response \in Responses(sqlText) : PressExplain(response)
    \/ \E now \in Timestamps, e \in Editable : PressSave(now, e)
    \/ \E now \in Timestamps, e \in Editable : PressSaveCutShort(now, e)
    \/ PressSearch

Spec == Init /\ [][Next]_vars

----------------------------------------------------------------------------
(* The ranking on stores of up to MaxRanked rows: each store is what that   *)
(* many saves leave behind, and the search is applied to it once (it reads  *)
(* nothing but the file and does not change it, so a second search of the   *)
(* same store has the same outcomes).                                       *)

RankEntries ==
    { NewEntry(Stamp, SqlSelect, GenNormal), NewEntry(Stamp, SqlSelect, EditRepeated) }

\* the file after save_explanation ran once for each entry, starting without a file
RECURSIVE StoreAfter(_)
StoreAfter(entries) ==
    IF entries = << >> THEN NoFile
    ELSE Table(ToCsv(Combined(StoreAfter(SubSeq(entries, 1, Len(entries) - 1)),
                              entries[Len(entries)])))

InitRank ==
    /\ apiKey = KeySet
    /\ sqlText = SqlEmpty
    /\ session = NoSession
    /\ \E n \in 0..MaxRanked : \E entries \in [1..n -> RankEntries] : file = StoreAfter(entries)
    /\ http = NoRequest
    /\ signal = "idle"
    /\ similarity = << >>
    /\ display = << >>
    /\ embedded = FALSE
    /\ explained = << >>
    /\ saving = NoSaving

NextRank == signal = "idle" /\ PressSearch

SpecRank == InitRank /\ [][NextRank]_vars

----------------------------------------------------------------------------
(* Properties. *)

Shown == {display[i].index : i \in 1..Len(display)}
Stored == 1..Len(file.rows)
SearchSignals == {"no_history", "no_data", "top_matches", "search_exception"}

\* C1: a search that ranks n stored rows shows at most min(5, n) of them, each with its
\* own similarity, in non-increasing order of similarity, and no row left out has a
\* strictly higher similarity than a row shown.
C1_TopRanked ==
    signal = "top_matches" =>
        /\ Len(display) <= Min({5, Len(file.rows)})
        /\ \A i \in 1..Len(display) :
               /\ display[i].index \in Stored
               /\ display[i].similarity = similarity[display[i].index]
        /\ \A i, j \in 1..Len(display) : i # j => display[i].index # display[j].index
        /\ \A i \in 1..(Len(display) - 1) : display[i].similarity >= display[i + 1].similarity
        /\ \A j \in Stored \ Shown :
               \A i \in 1..Len(display) : similarity[j] <= display[i].similarity

\* a search of more than five rows with a tie at the cut-off and a higher row on top
C1_Witness ==
    /\ signal = "top_matches"
    /\ Len(file.rows) > 5
    /\ Len(display) = 5
    /\ display[1].similarity > display[5].similarity
    /\ \E j \in Stored \ Shown : similarity[j] = display[5].similarity

\* C2: rows with equal similarity are shown in file order, and at the cut-off the rows
\* kept are the earlier ones of a tie.
C2_StableTies ==
    signal = "top_matches" =>
        /\ \A i, j \in 1..Len(display) :
               i < j /\ display[i].similarity = display[j].similarity
                   => display[i].index < display[j].index
        /\ \A j \in Stored \ Shown :
               \A i \in 1..Len(display) :
                   similarity[j] = display[i].similarity => display[i].index < j

\* the field the first line starting with `label` gives, the empty str without such a line
FirstMatch(explanation, label) ==
    LET lines == SplitLines(explanation)
        matches == {i \in 1..Len(lines) : StartsWith(Lower(lines[i]), label)}
    IN  IF matches = {} THEN << >> ELSE Strip(AfterFirstColon(lines[Min(matches)]))

\* C3: tables_used and columns_selected of a saved row are taken from the first line with
\* the label, and are empty without such a line.
C3_FirstMatchWins ==
    saving.active =>
        /\ saving.entry.tables_used = FirstMatch(saving.entry.explanation, LabelTables)
        /\ saving.entry.columns_selected = FirstMatch(saving.entry.explanation, LabelColumns)

\* C4: after a save, loading the file gives one row more than before, and the last row
\* equals the saved record in all five fields, as str.
C4_AppendThenLoad ==
    signal = "saved" =>
        LET loaded == ReadCsv(file.rows)
        IN  /\ Len(loaded) = Len(saving.before.rows) + 1
            /\ \A c \in ColumnNames : loaded[Len(loaded)][c] = StrValue(saving.entry[c])

\* C5: a save leaves the rows the file held before it in place and unaltered, as a prefix
\* of the rows it holds afterwards.
C5_AppendOnly ==
    signal = "saved" =>
        /\ Len(file.rows) = Len(saving.before.rows) + 1
        /\ SubSeq(file.rows, 1, Len(saving.before.rows)) = saving.before.rows

\* C6: after a save, completed or not, the file is the one from before the save or the
\* complete table the save was writing.
C6_AllOrNothing ==
    saving.active =>
        \/ file = saving.before
        \/ file = Table(ToCsv(Combined(saving.before, saving.entry)))

\* a JSON body that is neither [ {generated_text: ...}, ... ] nor {generated_text: ...}
OtherShape(body) ==
    /\ ~(body.type = "list" /\ body.items # << >> /\ body.items[1].has)
    /\ ~(body.type = "object" /\ body.has)

\* C7: a successful call whose JSON body has another shape yields the empty explanation.
C7_OtherShapesGiveEmpty ==
    signal = "explained" /\ http.response.ok /\ OtherShape(http.response.body)
        => session.explanation = << >>

\* C8: no request is sent in a run without a key; pressing Explain without a key shows
\* the warning, sends nothing and leaves the stored explanation as it was.
C8_NoCallWithoutKey ==
    [][ /\ apiKey' = KeyEmpty => ~http'.sent
        /\ http'.sent => http'.authorization # KeyEmpty
        /\ apiKey = KeyEmpty /\ apiKey' = KeyEmpty => session' = session
        /\ signal' = "key_warning" => apiKey = KeyEmpty /\ ~http'.sent /\ session' = session
      ]_vars

\* Explain was pressed without a key while an explanation was stored
C8_Witness ==
    /\ signal = "key_warning"
    /\ apiKey = KeyEmpty
    /\ session.has
    /\ session.explanation # << >>

\* C9: a search without a file signals "no saved history", a search of a file without
\* rows signals "no data to search", neither touches the Embedder, and neither changes
\* or creates the file.
C9_EmptyStoreSignals ==
    /\ [](signal \in SearchSignals /\ ~file.exists => signal = "no_history" /\ ~embedded)
    /\ [](signal \in SearchSignals /\ file.exists /\ file.rows = << >>
              => signal = "no_data" /\ ~embedded)
    /\ [][signal' \in SearchSignals => file' = file]_vars

\* C10: the sql_query of a saved record is the query that was passed to explain_sql for
\* the explanation in the session.
C10_SavedSqlIsExplained ==
    signal = "saved" => saving.entry.sql_query = explained
====
